---- MODULE Spec2Model ----
(***************************************************************************)
(* A model of src/main.py, the CSV-to-PostgreSQL loader.                   *)
(*                                                                         *)
(*   SpecClean  clean_column_name applied to a header, then to its result  *)
(*   SpecInfer  infer_column_type applied to a sample of raw values        *)
(*   SpecGen    generate_create_table_statement called for several tables  *)
(*   Spec       main(): connect, create_all_tables, import_csv_data        *)
(*                                                                         *)
(* Text that the code inspects character by character (headers, sampled    *)
(* values, file names) is a sequence of one-character strings.  Text that  *)
(* the code only concatenates and compares (table, column, index names)    *)
(* is a string.                                                            *)
(***************************************************************************)
EXTENDS Integers, Sequences, FiniteSets, TLC

VARIABLES
    header,       \* SpecClean: the raw header given to clean_column_name
    cleaned,      \* SpecClean: outcome of clean_column_name(header)
    recleaned,    \* SpecClean: outcome of clean_column_name(cleaned.value)
    values,       \* SpecInfer: the sample given to infer_column_type
    inferred,     \* SpecInfer: the type returned, "NotRun" before the call
    gen_calls,    \* SpecGen: number of generate_create_table_statement calls
    gen_in,       \* SpecGen: arguments of the last call
    gen_out,      \* SpecGen: result of the last call
    gen_indexes,  \* SpecGen: every index statement produced so far
    gen_tables,   \* SpecGen: the table names passed so far
    listing,      \* Spec: os.listdir(data_dir), the same in both passes
    pc,           \* Spec: position in main()
    fi,           \* Spec: index into listing of the file being processed
    ix,           \* Spec: index of the next CREATE INDEX statement of file fi
    create_statements,       \* Spec: the list built by the first pass
    t1,           \* Spec: outer index of the second pass (table_name1)
    t2,           \* Spec: inner index of the second pass (table_name2)
    foreign_key_statements,  \* Spec: the list built by the second pass
    db,           \* Spec: the connection: transaction status, its view, the committed store
    rows,         \* Spec: data rows of the file being imported
    valid_columns,     \* Spec: CSV columns that are columns of the table
    ri,           \* Spec: index of the next row to insert
    executed,     \* Spec (history): DDL statements executed, by file and position
    fk_checks,    \* Spec (history): pairs whose existence check was executed
    fk_attempts,  \* Spec (history): ALTER TABLE statements executed, in order
    schema_committed,  \* Spec (history): create_all_tables called conn.commit()
    attempted,    \* Spec (history): inserts executed for the current file, in order
    imported,     \* Spec (history): files whose row batch was committed, in order
    failed_files, \* Spec (history): files that had a failing insert
    committed_before   \* Spec (history): committed rows when the current file was opened

cleanVars == <<header, cleaned, recleaned>>
inferVars == <<values, inferred>>
genVars   == <<gen_calls, gen_in, gen_out, gen_indexes, gen_tables>>
mainVars  == <<listing, pc, fi, ix, create_statements, t1, t2, foreign_key_statements, db,
               rows, valid_columns, ri, executed, fk_checks, fk_attempts, schema_committed, attempted,
               imported, failed_files, committed_before>>
vars == <<cleanVars, inferVars, genVars, mainVars>>

-----------------------------------------------------------------------------
(* Bounds *)

MaxHeaderLen == 3
MaxSample == 2
MaxCols == 2
MaxGenCalls == 2
MaxRows == 3

-----------------------------------------------------------------------------
(* Characters and the str methods the code calls *)

UpperAZ == <<"A","B","C","D","E","F","G","H","I","J","K","L","M",
             "N","O","P","Q","R","S","T","U","V","W","X","Y","Z">>
LowerAZ == <<"a","b","c","d","e","f","g","h","i","j","k","l","m",
             "n","o","p","q","r","s","t","u","v","w","x","y","z">>

AsciiDigits == {"0","1","2","3","4","5","6","7","8","9"}
\* "SUP2" stands for the one character U+00B2 (superscript two): a character
\* for which str.isdigit() is True although it is no decimal digit (float()
\* and the regex class \d reject it).
SuperscriptTwo == "SUP2"
Whitespace == {" ", "\t"}

IsUpper(c) == \E i \in 1..26 : UpperAZ[i] = c
IsLowerAZ(c) == \E i \in 1..26 : LowerAZ[i] = c

\* str.lower(), one character
LowerChar(c) == IF IsUpper(c) THEN LowerAZ[CHOOSE i \in 1..26 : UpperAZ[i] = c] ELSE c

\* str.lower()
lower(s) == [i \in 1..Len(s) |-> LowerChar(s[i])]

RECURSIVE lstrip(_)
lstrip(s) == IF s /= <<>> /\ Head(s) \in Whitespace THEN lstrip(Tail(s)) ELSE s

RECURSIVE rstrip(_)
rstrip(s) ==
    IF s /= <<>> /\ s[Len(s)] \in Whitespace THEN rstrip(SubSeq(s, 1, Len(s) - 1)) ELSE s

\* str.strip()
strip(s) == rstrip(lstrip(s))

\* str.isdigit(): non-empty and every character is a digit character
isdigit(s) == s /= <<>> /\ \A i \in 1..Len(s) : s[i] \in AsciiDigits \cup {SuperscriptTwo}

\* str.isspace(): non-empty and every character is whitespace
isspace(s) == s /= <<>> /\ \A i \in 1..Len(s) : s[i] \in Whitespace

-----------------------------------------------------------------------------
(* clean_column_name *)

\* re.sub(r'[^a-zA-Z0-9]', '_', s)
SubNonAlnum(s) ==
    [i \in 1..Len(s) |->
        IF IsLowerAZ(s[i]) \/ IsUpper(s[i]) \/ s[i] \in AsciiDigits THEN s[i] ELSE "_"]

Returned(v) == [exc |-> "", value |-> v]
Raised(e) == [exc |-> e, value |-> <<>>]
NotRun == [exc |-> "NotRun", value |-> <<>>]

\* clean_name[0] on an empty string raises IndexError
clean_column_name(name) ==
    LET clean_name == SubNonAlnum(strip(lower(name)))
    IN  IF clean_name = <<>> THEN Raised("IndexError")
        ELSE IF isdigit(<<clean_name[1]>>)
             THEN Returned(<<"c", "o", "l", "_">> \o clean_name)
             ELSE Returned(clean_name)

HeaderChars == {"a", "B", "7", " ", "-", "_"}

RECURSIVE SeqsUpTo(_, _)
SeqsUpTo(S, n) ==
    IF n = 0 THEN {<<>>}
    ELSE LET shorter == SeqsUpTo(S, n - 1)
         IN  shorter \cup {Append(s, c) : s \in {t \in shorter : Len(t) = n - 1}, c \in S}

InitClean ==
    /\ header \in SeqsUpTo(HeaderChars, MaxHeaderLen)
    /\ cleaned = NotRun
    /\ recleaned = NotRun

IdleClean ==
    /\ header = <<>>
    /\ cleaned = NotRun
    /\ recleaned = NotRun

\* clean_header = clean_column_name(header)
Clean ==
    /\ cleaned = NotRun
    /\ cleaned' = clean_column_name(header)
    /\ UNCHANGED <<header, recleaned>>
    /\ UNCHANGED <<inferVars, genVars, mainVars>>

\* the sanitizer applied to an identifier it returned
CleanAgain ==
    /\ cleaned.exc = ""
    /\ recleaned = NotRun
    /\ recleaned' = clean_column_name(cleaned.value)
    /\ UNCHANGED <<header, cleaned>>
    /\ UNCHANGED <<inferVars, genVars, mainVars>>

-----------------------------------------------------------------------------
(* infer_column_type *)

FirstIndex(s, S) ==
    IF \E i \in 1..Len(s) : s[i] \in S
    THEN CHOOSE i \in 1..Len(s) : s[i] \in S /\ \A j \in 1..(i - 1) : s[j] \notin S
    ELSE 0

\* digits, with single underscores allowed between digits (float's grammar)
IsDigitPart(s) ==
    /\ s /= <<>>
    /\ s[1] \in AsciiDigits
    /\ s[Len(s)] \in AsciiDigits
    /\ \A i \in 1..Len(s) : s[i] \in AsciiDigits \cup {"_"}
    /\ \A i \in 1..(Len(s) - 1) : ~(s[i] = "_" /\ s[i + 1] = "_")

DropSign(s) == IF s /= <<>> /\ s[1] \in {"+", "-"} THEN Tail(s) ELSE s

IsMantissa(m) ==
    LET dot == FirstIndex(m, {"."})
        int == SubSeq(m, 1, dot - 1)
        frac == SubSeq(m, dot + 1, Len(m))
    IN  IF dot = 0 THEN IsDigitPart(m)
        ELSE /\ int = <<>> \/ IsDigitPart(int)
             /\ frac = <<>> \/ IsDigitPart(frac)
             /\ ~(int = <<>> /\ frac = <<>>)

\* float(val) returns (TRUE) or raises ValueError (FALSE)
FloatParses(val) ==
    LET body == DropSign(strip(val))
        e == FirstIndex(body, {"e", "E"})
    IN  \/ lower(body) \in {<<"i","n","f">>, <<"n","a","n">>,
                            <<"i","n","f","i","n","i","t","y">>}
        \/ /\ e = 0
           /\ IsMantissa(body)
        \/ /\ e > 0
           /\ IsMantissa(SubSeq(body, 1, e - 1))
           /\ IsDigitPart(DropSign(SubSeq(body, e + 1, Len(body))))

\* A pattern is a sequence of "d" (the class \d) and literal characters.
FullMatch(pattern, val) ==
    /\ Len(val) = Len(pattern)
    /\ \A i \in 1..Len(pattern) :
           IF pattern[i] = "d" THEN val[i] \in AsciiDigits ELSE val[i] = pattern[i]

\* re.match(r'^...$', val): $ also matches just before a final newline
ReMatch(pattern, val) ==
    \/ FullMatch(pattern, val)
    \/ /\ val /= <<>>
       /\ val[Len(val)] = "\n"
       /\ FullMatch(pattern, SubSeq(val, 1, Len(val) - 1))

date_patterns ==
    << <<"d","d","d","d","-","d","d","-","d","d">>,
       <<"d","d","/","d","d","/","d","d","d","d">>,
       <<"d","d","-","d","d","-","d","d","d","d">> >>

infer_column_type(vals) ==
    LET CanBeInt(val) == isdigit(val) \/ val = <<>>
        CanBeFloat(val) == (val /= <<>> /\ ~isspace(val)) => FloatParses(val)
        DateLike(val) ==
            val /= <<>> =>
                \/ \E k \in 1..Len(date_patterns) : ReMatch(date_patterns[k], val)
                \/ val = <<>>
    IN  IF \A i \in 1..Len(vals) : CanBeInt(vals[i]) THEN "INTEGER"
        ELSE IF \A i \in 1..Len(vals) : CanBeFloat(vals[i]) THEN "NUMERIC"
        ELSE IF \A i \in 1..Len(vals) : DateLike(vals[i]) THEN "DATE"
        ELSE "TEXT"

SampleValues ==
    { <<>>,
      <<"7">>,
      <<"4","2">>,
      <<SuperscriptTwo>>,
      <<" ">>,
      <<"1",".","5">>,
      <<"-","3">>,
      <<"1","e","5">>,
      <<"2","0","2","3","-","0","1","-","0","1">>,
      <<"0","1","/","0","2","/","2","0","2","3">>,
      <<"1","3","-","4","5","-","9","9","9","9">>,
      <<"a","b","c">> }

InitInfer ==
    /\ values \in SeqsUpTo(SampleValues, MaxSample)
    /\ inferred = "NotRun"

IdleInfer ==
    /\ values = <<>>
    /\ inferred = "NotRun"

\* column_types = [infer_column_type(samples) for samples in column_samples]
Infer ==
    /\ inferred = "NotRun"
    /\ inferred' = infer_column_type(values)
    /\ UNCHANGED values
    /\ UNCHANGED <<cleanVars, genVars, mainVars>>

-----------------------------------------------------------------------------
(* generate_create_table_statement *)

\* The CREATE TABLE statement is the ordered list of its column definitions
\* (name, type, whether " PRIMARY KEY" was appended); a CREATE INDEX statement
\* is its index name, table and column.
ColumnDef(columns, column_types, i) ==
    LET pk_column == columns[1]
    IN  [col |-> columns[i], type |-> column_types[i], primary_key |-> columns[i] = pk_column]

IndexStatement(table_name, col) ==
    [name |-> "idx_" \o table_name \o "_" \o col, table |-> table_name, col |-> col]

RECURSIVE IndexStatements(_, _, _)
IndexStatements(table_name, pk_column, columns) ==
    IF columns = <<>> THEN <<>>
    ELSE IF Head(columns) /= pk_column
         THEN <<IndexStatement(table_name, Head(columns))>>
                  \o IndexStatements(table_name, pk_column, Tail(columns))
         ELSE IndexStatements(table_name, pk_column, Tail(columns))

\* zip(columns, column_types) stops at the shorter of the two
generate_create_table_statement(table_name, columns, column_types) ==
    LET n == IF Len(columns) < Len(column_types) THEN Len(columns) ELSE Len(column_types)
    IN  [table |-> table_name,
         sql |-> [i \in 1..n |-> ColumnDef(columns, column_types, i)],
         indexes |-> IndexStatements(table_name, columns[1], columns)]

GenTableNames == {"a", "a_b", "orders"}
GenColumnNames == {"id", "c", "b_c"}

\* Types as analyze_csv_structure would pair them with the columns; their
\* values play no part in the statements' structure.
GenTypes(columns) == [i \in 1..Len(columns) |-> IF columns[i] = "id" THEN "INTEGER" ELSE "TEXT"]

NoGenIn == [table_name |-> "", columns |-> <<>>, column_types |-> <<>>]
NoGenOut == [table |-> "", sql |-> <<>>, indexes |-> <<>>]

IdleGen ==
    /\ gen_calls = MaxGenCalls
    /\ gen_in = NoGenIn
    /\ gen_out = NoGenOut
    /\ gen_indexes = {}
    /\ gen_tables = {}

InitGen ==
    /\ gen_calls = 0
    /\ gen_in = NoGenIn
    /\ gen_out = NoGenOut
    /\ gen_indexes = {}
    /\ gen_tables = {}

\* create_sql, indexes = generate_create_table_statement(table_name, columns, column_types)
\* for one more file; table names of distinct files differ here.
Generate ==
    /\ gen_calls < MaxGenCalls
    /\ \E table_name \in GenTableNames,
          columns \in SeqsUpTo(GenColumnNames, MaxCols) \ {<<>>} :
          /\ table_name \notin gen_tables
          /\ gen_tables' = gen_tables \cup {table_name}
          /\ gen_in' = [table_name |-> table_name, columns |-> columns,
                        column_types |-> GenTypes(columns)]
          /\ gen_out' = generate_create_table_statement(table_name, columns, GenTypes(columns))
          /\ gen_indexes' = gen_indexes \cup
                 {gen_out'.indexes[k] : k \in 1..Len(gen_out'.indexes)}
    /\ gen_calls' = gen_calls + 1
    /\ UNCHANGED <<cleanVars, inferVars, mainVars>>

-----------------------------------------------------------------------------
(* The data directory *)

\* str.endswith
endswith(s, suffix) ==
    /\ Len(s) >= Len(suffix)
    /\ SubSeq(s, Len(s) - Len(suffix) + 1, Len(s)) = suffix

LastIndex(s, c) ==
    IF \E j \in 1..Len(s) : s[j] = c
    THEN CHOOSE j \in 1..Len(s) : s[j] = c /\ \A m \in (j + 1)..Len(s) : s[m] /= c
    ELSE 0

\* os.path.splitext(file_name)[0]: up to the last dot, leading dots kept
splitext_root(s) ==
    LET dot == LastIndex(s, ".")
    IN  IF dot = 0 \/ \A j \in 1..(dot - 1) : s[j] = "." THEN s ELSE SubSeq(s, 1, dot - 1)

\* a sequence of characters as the string the code puts into SQL text
RECURSIVE ToStr(_)
ToStr(s) == IF s = <<>> THEN "" ELSE Head(s) \o ToStr(Tail(s))

DotCsv == <<".", "c", "s", "v">>
IsCsv(file_name) == endswith(file_name, DotCsv)

\* table_name = os.path.splitext(file_name)[0].lower()
TableNameOf(file_name) == ToStr(lower(splitext_root(file_name)))

CustomersCsv == <<"c","u","s","t","o","m","e","r","s",".","c","s","v">>
OrdersCsv == <<"O","r","d","e","r","s",".","c","s","v">>
PartsCsv == <<"p","a","r","t","s",".","c","s","v">>
NotesTxt == <<"n","o","t","e","s",".","t","x","t">>
DupCsv == <<"d","u","p",".","c","s","v">>

\* The files the directory may hold: the header row, and the types
\* analyze_csv_structure infers for the columns.  Data rows hold the first
\* field only (a short row: the other fields are None), drawn from RowKeys, of
\* which every sample infers INTEGER.
Catalog ==
    { [file_name |-> CustomersCsv,
       headers |-> << <<"I","D">>, <<"N","a","m","e">> >>,
       column_types |-> <<"INTEGER", "TEXT">>],
      [file_name |-> OrdersCsv,
       headers |-> << <<"i","d">>, <<"C","u","s","t","o","m","e","r"," ","I","D">>, <<"c","u","s","t","o","m","e","r","s","-","i","d">>, <<" ","p","a","r","t","s","_","i","d">> >>,
       column_types |-> <<"INTEGER", "INTEGER", "INTEGER", "INTEGER">>],
      [file_name |-> PartsCsv,
       headers |-> << <<"S","K","U">>, <<"i","d">> >>,
       column_types |-> <<"INTEGER", "INTEGER">>],
      [file_name |-> DupCsv,
       headers |-> << <<"a"," ","b">>, <<"a","_","b">> >>,
       column_types |-> <<"INTEGER", "TEXT">>],
      [file_name |-> NotesTxt,
       headers |-> <<>>,
       column_types |-> <<>>] }

FileNames == {f.file_name : f \in Catalog}
FileNamed(file_name) == CHOOSE f \in Catalog : f.file_name = file_name

RowKeys == { <<"1">>, <<>> }

\* sequences over S without repetition
RECURSIVE Arrangements(_)
Arrangements(S) ==
    {<<>>} \cup UNION {{<<x>> \o t : t \in Arrangements(S \ {x})} : x \in S}

\* clean_headers = [clean_column_name(header) for header in headers]; no
\* header of the catalog is blank, so clean_column_name returns for each
CleanHeaders(file_name) ==
    LET headers == FileNamed(file_name).headers
    IN  [n \in 1..Len(headers) |-> ToStr(clean_column_name(headers[n]).value)]

\* what the first pass derives from file number n of the listing
Statements(n) ==
    generate_create_table_statement(TableNameOf(listing[n]), CleanHeaders(listing[n]),
                                    FileNamed(listing[n]).column_types)

-----------------------------------------------------------------------------
(* The store behind psycopg2: one connection, autocommit off *)

EmptyStore == [tables |-> {}, indexes |-> {}, constraints |-> {}, rows |-> {}]

\* txn: "idle" (no transaction open), "active", or "aborted" (a statement of
\* the open transaction failed: every further statement raises until the
\* transaction ends).  work is what statements of the transaction see,
\* durable what is committed.
FreshDb == [txn |-> "idle", work |-> EmptyStore, durable |-> EmptyStore]

Aborted(c) == c.txn = "aborted"

\* cur.execute(...) raises psycopg2.Error: the transaction is aborted
\* already, or the store rejects the statement
Raises(c, rejected) == IF Aborted(c) THEN TRUE ELSE rejected

\* cur.execute(...) returned
ExecuteOk(c, view) == [c EXCEPT !.txn = "active", !.work = view]

\* cur.execute(...) raised psycopg2.Error
ExecuteError(c) == [c EXCEPT !.txn = "aborted"]

\* conn.commit(): ending an aborted transaction rolls it back
Commit(c) ==
    IF Aborted(c)
    THEN [txn |-> "idle", work |-> c.durable, durable |-> c.durable]
    ELSE [txn |-> "idle", work |-> c.work, durable |-> c.work]

RollbackKeepsWork(c) == [c EXCEPT !.txn = "idle"]

\* conn.rollback()
Rollback(c) == [txn |-> "idle", work |-> c.durable, durable |-> c.durable]

ColumnsOf(sql) == {sql[n].col : n \in 1..Len(sql)}

\* the store rejects a column named twice and a second PRIMARY KEY
CreateTableError(st) ==
    \/ \E m, n \in 1..Len(st.sql) : m /= n /\ st.sql[m].col = st.sql[n].col
    \/ Cardinality({n \in 1..Len(st.sql) : st.sql[n].primary_key}) > 1

\* CREATE TABLE IF NOT EXISTS
CreateTableApply(view, st) ==
    IF \E t \in view.tables : t.name = st.table THEN view
    ELSE [view EXCEPT !.tables = @ \cup {[name |-> st.table, sql |-> st.sql]}]

\* CREATE INDEX IF NOT EXISTS
CreateIndexApply(view, index) == [view EXCEPT !.indexes = @ \cup {index.name}]

\* SELECT column_name FROM information_schema.columns WHERE table_name = ...
DbColumns(view, table_name) ==
    UNION {ColumnsOf(t.sql) : t \in {u \in view.tables : u.name = table_name}}

FkName(table_name1, table_name2) == "fk_" \o table_name1 \o "_" \o table_name2

\* ADD CONSTRAINT ... FOREIGN KEY (fk_column) REFERENCES table_name2 (id) is
\* rejected when table_name2 has no unique column id, when the two columns'
\* types differ, or when the constraint exists already.
AlterError(view, table_name1, table_name2, fk_column) ==
    \/ FkName(table_name1, table_name2) \in view.constraints
    \/ ~\E a \in view.tables, b \in view.tables :
          /\ a.name = table_name1
          /\ b.name = table_name2
          /\ \E m \in 1..Len(a.sql), n \in 1..Len(b.sql) :
                /\ a.sql[m].col = fk_column
                /\ b.sql[n].col = "id"
                /\ b.sql[n].primary_key
                /\ a.sql[m].type = b.sql[n].type

AlterApply(view, table_name1, table_name2) ==
    [view EXCEPT !.constraints = @ \cup {FkName(table_name1, table_name2)}]

\* INSERT INTO table (valid columns) VALUES (key, None, ...) is rejected when
\* no column is valid (empty column list), when the key column is missing or
\* the key is no integer literal, or when the key is already in the table.
InsertError(view, table_name, columns, valid, key) ==
    IF valid = <<>> THEN TRUE
    ELSE IF columns[1] /= valid[1] THEN TRUE
    ELSE IF key = <<>> THEN TRUE
    ELSE IF \E n \in 1..Len(key) : key[n] \notin AsciiDigits THEN TRUE
    ELSE \E row \in view.rows : row.table = table_name /\ row.key = key

-----------------------------------------------------------------------------
(* main *)

MainStart ==
    /\ pc = "start"
    /\ fi = 1
    /\ ix = 1
    /\ create_statements = <<>>
    /\ t1 = 1
    /\ t2 = 1
    /\ foreign_key_statements = <<>>
    /\ db = FreshDb
    /\ rows = <<>>
    /\ valid_columns = <<>>
    /\ ri = 1
    /\ executed = {}
    /\ fk_checks = {}
    /\ fk_attempts = <<>>
    /\ schema_committed = FALSE
    /\ attempted = <<>>
    /\ imported = <<>>
    /\ failed_files = {}
    /\ committed_before = {}

\* os.listdir(data_dir) returns the files in no particular order
InitMain ==
    /\ listing \in Arrangements(FileNames)
    /\ MainStart

IdleMain ==
    /\ listing = <<>>
    /\ MainStart

\* conn = psycopg2.connect(**DB_PARAMS); cur = conn.cursor()
Connect ==
    /\ pc = "start"
    /\ pc' = "create"
    /\ UNCHANGED <<listing, fi, ix, create_statements, t1, t2, foreign_key_statements, db,
                   rows, valid_columns, ri, executed, fk_checks, fk_attempts,
                   schema_committed, attempted, imported, failed_files, committed_before>>
    /\ UNCHANGED <<cleanVars, inferVars, genVars>>

\* psycopg2.connect raises: except psycopg2.Error, "Error connecting ..."
ConnectFails ==
    /\ pc = "start"
    /\ pc' = "error"
    /\ UNCHANGED <<listing, fi, ix, create_statements, t1, t2, foreign_key_statements, db,
                   rows, valid_columns, ri, executed, fk_checks, fk_attempts,
                   schema_committed, attempted, imported, failed_files, committed_before>>
    /\ UNCHANGED <<cleanVars, inferVars, genVars>>

CreatePassDoneEarly(n) == n > 1

\* the first pass's for loop over os.listdir has no file left
CreatePassDone(n) == n > Len(listing)

\* first pass, a file that does not end in .csv
CreateSkip ==
    /\ pc = "create"
    /\ fi <= Len(listing)
    /\ ~IsCsv(listing[fi])
    /\ fi' = fi + 1
    /\ UNCHANGED <<listing, pc, ix, create_statements, t1, t2, foreign_key_statements, db,
                   rows, valid_columns, ri, executed, fk_checks, fk_attempts,
                   schema_committed, attempted, imported, failed_files, committed_before>>
    /\ UNCHANGED <<cleanVars, inferVars, genVars>>

\* cur.execute(create_sql) returns
CreateTable ==
    /\ pc = "create"
    /\ fi <= Len(listing)
    /\ IsCsv(listing[fi])
    /\ ~Raises(db, CreateTableError(Statements(fi)))
    /\ db' = ExecuteOk(db, CreateTableApply(db.work, Statements(fi)))
    /\ executed' = executed \cup {[file |-> fi, kind |-> "table", n |-> 0]}
    /\ pc' = "indexes"
    /\ ix' = 1
    /\ UNCHANGED <<listing, fi, create_statements, t1, t2, foreign_key_statements,
                   rows, valid_columns, ri, fk_checks, fk_attempts,
                   schema_committed, attempted, imported, failed_files, committed_before>>
    /\ UNCHANGED <<cleanVars, inferVars, genVars>>

\* cur.execute(create_sql) raises psycopg2.Error, which only main catches
CreateTableRaises ==
    /\ pc = "create"
    /\ fi <= Len(listing)
    /\ IsCsv(listing[fi])
    /\ Raises(db, CreateTableError(Statements(fi)))
    /\ db' = ExecuteError(db)
    /\ executed' = executed \cup {[file |-> fi, kind |-> "table", n |-> 0]}
    /\ pc' = "error"
    /\ UNCHANGED <<listing, fi, ix, create_statements, t1, t2, foreign_key_statements,
                   rows, valid_columns, ri, fk_checks, fk_attempts,
                   schema_committed, attempted, imported, failed_files, committed_before>>
    /\ UNCHANGED <<cleanVars, inferVars, genVars>>

\* for index_sql in indexes: cur.execute(index_sql); the statement names a
\* column of the table just created, in a transaction that is not aborted
CreateIndex ==
    /\ pc = "indexes"
    /\ ix <= Len(Statements(fi).indexes)
    /\ db' = ExecuteOk(db, CreateIndexApply(db.work, Statements(fi).indexes[ix]))
    /\ executed' = executed \cup {[file |-> fi, kind |-> "index", n |-> ix]}
    /\ ix' = ix + 1
    /\ UNCHANGED <<listing, pc, fi, create_statements, t1, t2, foreign_key_statements,
                   rows, valid_columns, ri, fk_checks, fk_attempts,
                   schema_committed, attempted, imported, failed_files, committed_before>>
    /\ UNCHANGED <<cleanVars, inferVars, genVars>>

\* create_statements.append((table_name, create_sql, indexes))
AppendCreated ==
    /\ pc = "indexes"
    /\ ix > Len(Statements(fi).indexes)
    /\ create_statements' = Append(create_statements,
           [table_name |-> Statements(fi).table,
            create_sql |-> Statements(fi).sql,
            indexes |-> Statements(fi).indexes])
    /\ fi' = fi + 1
    /\ pc' = "create"
    /\ UNCHANGED <<listing, ix, t1, t2, foreign_key_statements, db,
                   rows, valid_columns, ri, executed, fk_checks, fk_attempts,
                   schema_committed, attempted, imported, failed_files, committed_before>>
    /\ UNCHANGED <<cleanVars, inferVars, genVars>>

\* the first pass ends and the second pass's loops begin
StartSecondPass ==
    /\ pc = "create"
    /\ CreatePassDone(fi)
    /\ pc' = "link"
    /\ t1' = 1
    /\ t2' = 1
    /\ UNCHANGED <<listing, fi, ix, create_statements, foreign_key_statements, db,
                   rows, valid_columns, ri, executed, fk_checks, fk_attempts,
                   schema_committed, attempted, imported, failed_files, committed_before>>
    /\ UNCHANGED <<cleanVars, inferVars, genVars>>

\* the inner for loop moves on; when it is exhausted, so does the outer one
NextPair ==
    IF t2 < Len(create_statements) THEN <<t1, t2 + 1>> ELSE <<t1 + 1, 1>>

table_name1 == create_statements[t1].table_name
table_name2 == create_statements[t2].table_name

\* fk_column = f"{table_name2}_id"
fk_column == table_name2 \o "_id"

InSecondPass ==
    /\ pc = "link"
    /\ t1 <= Len(create_statements)

\* if table_name1 != table_name2 is false
LinkSameTable ==
    /\ InSecondPass
    /\ table_name1 = table_name2
    /\ t1' = NextPair[1]
    /\ t2' = NextPair[2]
    /\ UNCHANGED <<listing, pc, fi, ix, create_statements, foreign_key_statements, db,
                   rows, valid_columns, ri, executed, fk_checks, fk_attempts,
                   schema_committed, attempted, imported, failed_files, committed_before>>
    /\ UNCHANGED <<cleanVars, inferVars, genVars>>

\* the existence check raises (the transaction is aborted); nothing in
\* create_all_tables catches it
LinkCheckRaises ==
    /\ InSecondPass
    /\ table_name1 /= table_name2
    /\ Raises(db, FALSE)
    /\ fk_checks' = fk_checks \cup {<<table_name1, table_name2>>}
    /\ pc' = "error"
    /\ UNCHANGED <<listing, fi, ix, create_statements, t1, t2, foreign_key_statements, db,
                   rows, valid_columns, ri, executed, fk_attempts,
                   schema_committed, attempted, imported, failed_files, committed_before>>
    /\ UNCHANGED <<cleanVars, inferVars, genVars>>

\* the existence check finds no such column: cur.fetchone() is None
LinkNoColumn ==
    /\ InSecondPass
    /\ table_name1 /= table_name2
    /\ ~Raises(db, FALSE)
    /\ fk_column \notin DbColumns(db.work, table_name1)
    /\ db' = ExecuteOk(db, db.work)
    /\ fk_checks' = fk_checks \cup {<<table_name1, table_name2>>}
    /\ t1' = NextPair[1]
    /\ t2' = NextPair[2]
    /\ UNCHANGED <<listing, pc, fi, ix, create_statements, foreign_key_statements,
                   rows, valid_columns, ri, executed, fk_attempts,
                   schema_committed, attempted, imported, failed_files, committed_before>>
    /\ UNCHANGED <<cleanVars, inferVars, genVars>>

FkAttempt(ok) == [from |-> table_name1, column |-> fk_column, to |-> table_name2, ok |-> ok]

\* the column exists and cur.execute(fk_sql) returns
LinkAlterOk ==
    /\ InSecondPass
    /\ table_name1 /= table_name2
    /\ ~Raises(db, FALSE)
    /\ fk_column \in DbColumns(db.work, table_name1)
    /\ ~AlterError(db.work, table_name1, table_name2, fk_column)
    /\ db' = ExecuteOk(db, AlterApply(db.work, table_name1, table_name2))
    /\ fk_checks' = fk_checks \cup {<<table_name1, table_name2>>}
    /\ fk_attempts' = Append(fk_attempts, FkAttempt(TRUE))
    /\ foreign_key_statements' =
           Append(foreign_key_statements, FkName(table_name1, table_name2))
    /\ t1' = NextPair[1]
    /\ t2' = NextPair[2]
    /\ UNCHANGED <<listing, pc, fi, ix, create_statements,
                   rows, valid_columns, ri, executed,
                   schema_committed, attempted, imported, failed_files, committed_before>>
    /\ UNCHANGED <<cleanVars, inferVars, genVars>>

\* the column exists and cur.execute(fk_sql) raises: except psycopg2.Error,
\* "Could not add foreign key"
LinkAlterFails ==
    /\ InSecondPass
    /\ table_name1 /= table_name2
    /\ ~Raises(db, FALSE)
    /\ fk_column \in DbColumns(db.work, table_name1)
    /\ AlterError(db.work, table_name1, table_name2, fk_column)
    /\ db' = ExecuteError(db)
    /\ fk_checks' = fk_checks \cup {<<table_name1, table_name2>>}
    /\ fk_attempts' = Append(fk_attempts, FkAttempt(FALSE))
    /\ t1' = NextPair[1]
    /\ t2' = NextPair[2]
    /\ UNCHANGED <<listing, pc, fi, ix, create_statements, foreign_key_statements,
                   rows, valid_columns, ri, executed,
                   schema_committed, attempted, imported, failed_files, committed_before>>
    /\ UNCHANGED <<cleanVars, inferVars, genVars>>

\* conn.commit(); return create_statements, foreign_key_statements
SchemaCommit ==
    /\ pc = "link"
    /\ t1 > Len(create_statements)
    /\ db' = Commit(db)
    /\ schema_committed' = TRUE
    /\ pc' = "import"
    /\ fi' = 1
    /\ UNCHANGED <<listing, ix, create_statements, t1, t2, foreign_key_statements,
                   rows, valid_columns, ri, executed, fk_checks, fk_attempts,
                   attempted, imported, failed_files, committed_before>>
    /\ UNCHANGED <<cleanVars, inferVars, genVars>>

\* import_csv_data, a file that does not end in .csv
ImportSkip ==
    /\ pc = "import"
    /\ fi <= Len(listing)
    /\ ~IsCsv(listing[fi])
    /\ fi' = fi + 1
    /\ UNCHANGED <<listing, pc, ix, create_statements, t1, t2, foreign_key_statements, db,
                   rows, valid_columns, ri, executed, fk_checks, fk_attempts,
                   schema_committed, attempted, imported, failed_files, committed_before>>
    /\ UNCHANGED <<cleanVars, inferVars, genVars>>

\* valid_columns = [col for col in clean_headers if col in db_columns]
ValidColumns(clean_headers, db_columns) ==
    SelectSeq(clean_headers, LAMBDA col : col \in db_columns)

\* open the file, read the header, ask the store for the table's columns
ImportOpen ==
    /\ pc = "import"
    /\ fi <= Len(listing)
    /\ IsCsv(listing[fi])
    /\ ~Raises(db, FALSE)
    /\ \E data \in SeqsUpTo(RowKeys, MaxRows) : rows' = data
    /\ valid_columns' = ValidColumns(CleanHeaders(listing[fi]),
                                     DbColumns(db.work, TableNameOf(listing[fi])))
    /\ db' = ExecuteOk(db, db.work)
    /\ ri' = 1
    /\ attempted' = <<>>
    /\ committed_before' = db.durable.rows
    /\ pc' = "rows"
    /\ UNCHANGED <<listing, fi, ix, create_statements, t1, t2, foreign_key_statements,
                   executed, fk_checks, fk_attempts,
                   schema_committed, imported, failed_files>>
    /\ UNCHANGED <<cleanVars, inferVars, genVars>>

InsertRaises ==
    Raises(db, InsertError(db.work, TableNameOf(listing[fi]), CleanHeaders(listing[fi]),
                           valid_columns, rows[ri]))

\* cur.execute(insert_sql, values) returns
InsertOk ==
    /\ pc = "rows"
    /\ ri <= Len(rows)
    /\ ~InsertRaises
    /\ db' = ExecuteOk(db, [db.work EXCEPT !.rows = @ \cup
               {[table |-> TableNameOf(listing[fi]), file |-> fi, line |-> ri,
                 key |-> rows[ri]]}])
    /\ attempted' = Append(attempted, [line |-> ri, ok |-> TRUE])
    /\ ri' = ri + 1
    /\ UNCHANGED <<listing, pc, fi, ix, create_statements, t1, t2, foreign_key_statements,
                   rows, valid_columns, executed, fk_checks, fk_attempts,
                   schema_committed, imported, failed_files, committed_before>>
    /\ UNCHANGED <<cleanVars, inferVars, genVars>>

BreakAfterFailure(n) == Len(rows) + 1

\* continue: the for loop takes the row after row n
ContinueAfterFailure(n) == n + 1

\* cur.execute(insert_sql, values) raises: except psycopg2.Error,
\* conn.rollback(), continue
InsertFails ==
    /\ pc = "rows"
    /\ ri <= Len(rows)
    /\ InsertRaises
    /\ db' = Rollback(ExecuteError(db))
    /\ attempted' = Append(attempted, [line |-> ri, ok |-> FALSE])
    /\ failed_files' = failed_files \cup {fi}
    /\ ri' = ContinueAfterFailure(ri)
    /\ UNCHANGED <<listing, pc, fi, ix, create_statements, t1, t2, foreign_key_statements,
                   rows, valid_columns, executed, fk_checks, fk_attempts,
                   schema_committed, imported, committed_before>>
    /\ UNCHANGED <<cleanVars, inferVars, genVars>>

\* the file's rows are exhausted: conn.commit(), "Imported data from ..."
FileCommit ==
    /\ pc = "rows"
    /\ ri > Len(rows)
    /\ db' = Commit(db)
    /\ imported' = Append(imported, fi)
    /\ fi' = fi + 1
    /\ pc' = "import"
    /\ UNCHANGED <<listing, ix, create_statements, t1, t2, foreign_key_statements,
                   rows, valid_columns, ri, executed, fk_checks, fk_attempts,
                   schema_committed, attempted, failed_files, committed_before>>
    /\ UNCHANGED <<cleanVars, inferVars, genVars>>

\* print("Data import completed successfully")
Finish ==
    /\ pc = "import"
    /\ fi > Len(listing)
    /\ pc' = "done"
    /\ UNCHANGED <<listing, fi, ix, create_statements, t1, t2, foreign_key_statements, db,
                   rows, valid_columns, ri, executed, fk_checks, fk_attempts,
                   schema_committed, attempted, imported, failed_files, committed_before>>
    /\ UNCHANGED <<cleanVars, inferVars, genVars>>

-----------------------------------------------------------------------------
(* Specifications *)

NextClean ==
    \/ Clean
    \/ CleanAgain

NextInfer == Infer

NextGen == Generate

Next ==
    \/ Connect
    \/ ConnectFails
    \/ CreateSkip
    \/ CreateTable
    \/ CreateTableRaises
    \/ CreateIndex
    \/ AppendCreated
    \/ StartSecondPass
    \/ LinkSameTable
    \/ LinkCheckRaises
    \/ LinkNoColumn
    \/ LinkAlterOk
    \/ LinkAlterFails
    \/ SchemaCommit
    \/ ImportSkip
    \/ ImportOpen
    \/ InsertOk
    \/ InsertFails
    \/ FileCommit
    \/ Finish

InitSpecClean == InitClean /\ IdleInfer /\ IdleGen /\ IdleMain

InitSpecInfer == IdleClean /\ InitInfer /\ IdleGen /\ IdleMain

InitSpecGen == IdleClean /\ IdleInfer /\ InitGen /\ IdleMain

Init == IdleClean /\ IdleInfer /\ IdleGen /\ InitMain

SpecClean == InitSpecClean /\ [][NextClean]_vars

SpecInfer == InitSpecInfer /\ [][NextInfer]_vars

SpecGen == InitSpecGen /\ [][NextGen]_vars

Spec == Init /\ [][Next]_vars

-----------------------------------------------------------------------------
(* Properties *)

IsIdentifier(s) ==
    /\ s /= <<>>
    /\ IsLowerAZ(s[1]) \/ s[1] = "_"
    /\ \A n \in 1..Len(s) : IsLowerAZ(s[n]) \/ s[n] \in AsciiDigits \/ s[n] = "_"

\* C1: for every header, the empty and the whitespace-only one included,
\* clean_column_name returns an identifier matching ^[a-z_][a-z0-9_]*$, and
\* applied to that identifier it returns the identifier unchanged.
C1_SanitizedIsIdempotentIdentifier ==
    /\ cleaned /= NotRun =>
           /\ cleaned.exc = ""
           /\ IsIdentifier(cleaned.value)
    /\ recleaned /= NotRun => recleaned = cleaned

OnlyDecimalDigits(val) == \A n \in 1..Len(val) : val[n] \in AsciiDigits

HasDateShape(val) ==
    \E pattern \in {date_patterns[n] : n \in 1..Len(date_patterns)} : FullMatch(pattern, val)

\* the decision order of the Type Inferrer, as specified
SpecifiedType(vals) ==
    LET AllOf(P(_)) == \A n \in 1..Len(vals) : P(vals[n])
        IntRule(val) == val = <<>> \/ OnlyDecimalDigits(val)
        NumRule(val) == val = <<>> \/ isspace(val) \/ FloatParses(val)
        DateRule(val) == val = <<>> \/ HasDateShape(val)
    IN  CASE AllOf(IntRule) -> "INTEGER"
          [] ~AllOf(IntRule) /\ AllOf(NumRule) -> "NUMERIC"
          [] ~AllOf(IntRule) /\ ~AllOf(NumRule) /\ AllOf(DateRule) -> "DATE"
          [] OTHER -> "TEXT"

\* C2: infer_column_type returns the type of the first rule that matches, in
\* the order INTEGER (every value empty or decimal digits only), NUMERIC
\* (every non-blank value parses as a float), DATE (every non-empty value has
\* one of the three date shapes), TEXT; the empty sample yields INTEGER.
C2_TypeFollowsDecisionOrder ==
    inferred /= "NotRun" => inferred = SpecifiedType(values)

\* C3: for every non-empty column list, duplicates included, the first
\* column and only the first is marked PRIMARY KEY, and there is exactly one
\* CREATE INDEX statement per column position after the first, in order.
C3_OnlyFirstColumnIsKey ==
    gen_calls > 0 =>
        /\ \A n \in 1..Len(gen_out.sql) : gen_out.sql[n].primary_key <=> n = 1
        /\ Len(gen_out.indexes) = Len(gen_in.columns) - 1
        /\ \A n \in 1..Len(gen_out.indexes) : gen_out.indexes[n].col = gen_in.columns[n + 1]

\* C4: no index name generated for one table equals an index name generated
\* for a table of another name.
C4_IndexNamesDifferAcrossTables ==
    \A x, y \in gen_indexes : x.table /= y.table => x.name /= y.name

SecondPassOver ==
    \/ pc \in {"import", "rows", "done"}
    \/ pc = "error" /\ fk_checks /= {}

TimesAttempted(from, to) ==
    Cardinality({m \in 1..Len(fk_attempts) :
                    fk_attempts[m].from = from /\ fk_attempts[m].to = to})

\* C5: once the second pass is over, an ALTER TABLE A ... REFERENCES B (id)
\* has been attempted exactly once for every ordered pair of distinct created
\* tables (A, B) where A has a column named B_id, and for no other pair.
C5_EveryNamedPairLinkedOnce ==
    SecondPassOver =>
        \A a, b \in 1..Len(create_statements) :
            LET A == create_statements[a]
                B == create_statements[b]
                named == /\ A.table_name /= B.table_name
                         /\ (B.table_name \o "_id") \in ColumnsOf(A.create_sql)
            IN  TimesAttempted(A.table_name, B.table_name) = IF named THEN 1 ELSE 0

SomeGuessFailed == \E m \in 1..Len(fk_attempts) : ~fk_attempts[m].ok

\* C6: when adding a foreign key fails, the run does not end in the error
\* handler, and the schema batch is committed with every created table and
\* index.
C6_FailedGuessNeverAborts ==
    SomeGuessFailed =>
        /\ pc /= "error"
        /\ schema_committed =>
               \A n \in 1..Len(create_statements) :
                   /\ \E t \in db.durable.tables : t.name = create_statements[n].table_name
                   /\ \A m \in 1..Len(create_statements[n].indexes) :
                          create_statements[n].indexes[m].name \in db.durable.indexes

FileDdlExecuted(n) ==
    /\ [file |-> n, kind |-> "table", n |-> 0] \in executed
    /\ \A m \in 1..Len(Statements(n).indexes) :
           [file |-> n, kind |-> "index", n |-> m] \in executed

RECURSIVE CsvUpTo(_)
CsvUpTo(n) ==
    IF n = 0 THEN <<>>
    ELSE CsvUpTo(n - 1) \o (IF IsCsv(listing[n]) THEN <<n>> ELSE <<>>)

InSourceOrder(log, count) ==
    /\ Len(log) = count
    /\ \A m \in 1..Len(log) : log[m].line = m

\* C8: a failing insert never sends the run to the error handler; every row
\* of the file is attempted in source order before the file is committed;
\* and every CSV file of the listing is opened and committed in turn.
C8_FailedInsertStopsNothing ==
    /\ failed_files /= {} => pc /= "error"
    /\ pc = "rows" => InSourceOrder(attempted, ri - 1) /\ imported = CsvUpTo(fi - 1)
    /\ (pc \in {"import", "done"} /\ imported /= <<>>) =>
           InSourceOrder(attempted, Len(rows))
    /\ pc = "import" => imported = CsvUpTo(fi - 1)
    /\ pc = "done" => imported = CsvUpTo(Len(listing))

C8_Witness ==
    /\ pc = "done"
    /\ Len(attempted) = MaxRows
    /\ \E f \in failed_files : \E row \in db.durable.rows : row.file > f

LastFailure(log) ==
    IF \E m \in 1..Len(log) : ~log[m].ok
    THEN CHOOSE m \in 1..Len(log) :
             ~log[m].ok /\ \A n \in (m + 1)..Len(log) : log[n].ok
    ELSE 0

SucceededAfterLastFailure(log) ==
    {log[m].line : m \in {n \in 1..Len(log) : log[n].ok /\ n > LastFailure(log)}}

LinesOf(store_rows, file) == {row.line : row \in {x \in store_rows : x.file = file}}

\* C10: once a file is committed, its committed rows are exactly the rows
\* whose insert succeeded after the file's last failing insert; while it is
\* imported, the transaction holds exactly those rows and nothing of it is
\* committed; and the rows committed for earlier files are never removed.
C10_CommittedRowsOfFile ==
    /\ (pc \in {"import", "done"} /\ imported /= <<>>) =>
           LinesOf(db.durable.rows, imported[Len(imported)])
               = SucceededAfterLastFailure(attempted)
    /\ pc = "rows" =>
           /\ LinesOf(db.work.rows, fi) = SucceededAfterLastFailure(attempted)
           /\ LinesOf(db.durable.rows, fi) = {}
    /\ pc \in {"rows", "import", "done"} => committed_before \subseteq db.durable.rows

C10_Witness ==
    /\ pc = "import"
    /\ imported /= <<>>
    /\ committed_before /= {}
    /\ Len(attempted) >= 2
    /\ attempted[1].ok
    /\ ~attempted[2].ok

NoCsvFiles == \A n \in 1..Len(listing) : ~IsCsv(listing[n])

\* C9: with no .csv file in the data directory the run does not report
\* success, executes no statement and commits nothing.
C9_NoCsvIsFatal ==
    NoCsvFiles =>
        /\ pc /= "done"
        /\ ~schema_committed
        /\ executed = {}
        /\ fk_checks = {}

====
